---- MODULE Spec2Model ----
(***************************************************************************)
(* Conway's Game of Life engine of src/app/page.tsx.                       *)
(*                                                                         *)
(* Cell and Grid are JavaScript objects, so the model keeps a heap: a cell *)
(* object is a record stored in `heap` and named by its index (its         *)
(* reference); a grid object is a record stored in `grids` and named by    *)
(* its index.  The engine functions take the heap and return the heap they *)
(* leave behind together with what they return.  Arrays are 0-indexed in   *)
(* the source and 1-indexed here: cells[y][x] is cells[y + 1][x + 1].      *)
(***************************************************************************)
EXTENDS Integers, Sequences, FiniteSets

VARIABLES
    args,    \* the argument triples the calls of createInitialGrid draw from
    heap,    \* the cell objects allocated so far, by reference
    grids,   \* the Grid objects returned so far, by reference
    origin,  \* history: for each grid of `grids`, the call that returned it
    call     \* the last engine call and what it returned or threw


(***************************************************************************)
(* Bounds of the model.                                                    *)
(***************************************************************************)
\* Largest width and height of a grid of Spec.
MaxDim == 3
\* Largest number of cells (width * height) of a grid of Spec.
MaxCells == 9
\* Largest number of Grid objects a behaviour of Spec allocates.
MaxGrids == 4
\* Largest number of cell objects a behaviour of Spec allocates.
MaxHeap == 18
\* SpecConstruct: the dimensions range over -1..MaxCDim, the coordinates
\* over -1..MaxCDim - 1, the lists have at most MaxCoords entries.
MaxCDim == 2
MaxCoords == 2
\* SpecEquals: largest dimension, number of cells and number of grids.
MaxEqDim == 2
MaxEqCells == 4
MaxEqGrids == 3
\* SpecBlinker: largest width and height, and largest number of grids.
MaxBlinkerDim == 5
MaxBlinkerGrids == 3
\* SpecBlock: largest width and height, and largest number of grids.
MaxBlockDim == 4
MaxBlockGrids == 3
\* SpecHome: the number of cells the mouse reaches, and the largest
\* generation from which a step is still taken.
MaxEditCells == 2
MaxGeneration == 2
\* SpecRun and SpecAuto: the number of cells a drawn pattern is taken from,
\* and the largest generation from which a step is still taken.
MaxPatternCells == 5
MaxRunGeneration == 3
MaxAutoGeneration == 5

(***************************************************************************)
(* Helpers.                                                                *)
(***************************************************************************)
RECURSIVE SetToSeq(_)
\* The elements of a finite set of integers in increasing order.
SetToSeq(S) ==
    IF S = {} THEN <<>>
    ELSE LET m == CHOOSE m \in S : \A n \in S : m <= n
         IN  <<m>> \o SetToSeq(S \ {m})

\* The sequences over S of length at most n.
SeqsUpTo(S, n) == UNION {[1..k -> S] : k \in 0..n}

\* The references held by a cells array.
RefsOf(cells) == UNION {{cells[r][c] : c \in DOMAIN cells[r]} : r \in DOMAIN cells}

\* The state of the cell object stored at cells[y][x] of grid g.
StateAt(g, x, y) == heap[g.cells[y + 1][x + 1]].state

(***************************************************************************)
(* getNeighbors: the cells of `cells` at the in-bounds positions among the *)
(* eight directions around `cell`, in the order of `directions`.           *)
(***************************************************************************)
directions ==
    << [x |-> -1, y |-> -1], [x |-> -1, y |-> 0], [x |-> -1, y |-> 1],
       [x |-> 0, y |-> -1],                       [x |-> 0, y |-> 1],
       [x |-> 1, y |-> -1],  [x |-> 1, y |-> 0],  [x |-> 1, y |-> 1] >>

\* A getNeighbors that wraps around the edges (a toroidal grid).
getNeighborsWrap(cells, cell, width, height) ==
    [k \in 1..Len(directions) |->
        cells[((cell.y + directions[k].y) % height) + 1]
             [((cell.x + directions[k].x) % width) + 1]]

getNeighbors(cells, cell, width, height) ==
    LET InBounds(direction) ==
            LET newX == cell.x + direction.x
                newY == cell.y + direction.y
            IN  newX >= 0 /\ newX < width /\ newY >= 0 /\ newY < height
        kept == SelectSeq(directions, InBounds)
    IN  [k \in 1..Len(kept) |->
            cells[cell.y + kept[k].y + 1][cell.x + kept[k].x + 1]]

\* `for (const row of cells) for (const cell of row) cell.neighbors = ...`:
\* every cell object of `cells` gets a fresh neighbour list.
AssignNeighbors(h, cells, width, height) ==
    LET refs == RefsOf(cells)
    IN  [r \in DOMAIN h |->
            IF r \in refs
            THEN [h[r] EXCEPT !.neighbors = getNeighbors(cells, h[r], width, height)]
            ELSE h[r]]

(***************************************************************************)
(* createInitialGrid.                                                      *)
(***************************************************************************)
\* Array(height) throws a RangeError for a negative length, and so does
\* Array(width), which runs once per row.
InvalidArrayLength(width, height) ==
    height < 0 \/ (height > 0 /\ width < 0)

\* The height * width dead cells, allocated row by row.
DeadCells(h, width, height) ==
    LET n == IF width > 0 /\ height > 0 THEN width * height ELSE 0
        fresh == [i \in 1..n |->
                    [x |-> (i - 1) % width, y |-> (i - 1) \div width,
                     state |-> "dead", neighbors |-> <<>>]]
        rows == IF height > 0 THEN height ELSE 0
        cols == IF width > 0 THEN width ELSE 0
    IN  [heap  |-> h \o fresh,
         cells |-> [y \in 1..rows |-> [x \in 1..cols |-> Len(h) + (y - 1) * width + x]]]

\* A loop body that flips the cell instead of setting it.
MarkAliveToggle(h, cells, aliveCell, width, height) ==
    IF aliveCell.x < width /\ aliveCell.y < height
    THEN IF aliveCell.y < 0 \/ aliveCell.x < 0
         THEN [err |-> "TypeError", heap |-> h]
         ELSE LET r == cells[aliveCell.y + 1][aliveCell.x + 1]
              IN  [err |-> "none",
                   heap |-> [h EXCEPT ![r].state =
                                IF @ = "alive" THEN "dead" ELSE "alive"]]
    ELSE [err |-> "none", heap |-> h]

\* The body of the loop over aliveCells.  The guard tests the upper bounds
\* only; cells[y] is undefined for y < 0 and cells[y][x] for x < 0, and
\* reading or writing a property of undefined throws a TypeError.
MarkAlive(h, cells, aliveCell, width, height) ==
    IF aliveCell.x < width /\ aliveCell.y < height
    THEN IF aliveCell.y < 0 \/ aliveCell.x < 0
         THEN [err |-> "TypeError", heap |-> h]
         ELSE [err |-> "none",
               heap |-> [h EXCEPT ![cells[aliveCell.y + 1][aliveCell.x + 1]].state = "alive"]]
    ELSE [err |-> "none", heap |-> h]

RECURSIVE SetAliveCells(_, _, _, _, _)
\* `for (const aliveCell of aliveCells) ...`, in the order of the list.
SetAliveCells(h, cells, aliveCells, width, height) ==
    IF aliveCells = <<>> THEN [err |-> "none", heap |-> h]
    ELSE LET one == MarkAlive(h, cells, Head(aliveCells), width, height)
         IN  IF one.err # "none" THEN one
             ELSE SetAliveCells(one.heap, cells, Tail(aliveCells), width, height)

\* What createInitialGrid(width, height, aliveCells) does on heap h: the
\* error it throws, or the heap it leaves and the Grid it returns.
createInitialGrid(h, width, height, aliveCells) ==
    IF InvalidArrayLength(width, height)
    THEN [err |-> "RangeError", heap |-> h, grid |-> <<>>]
    ELSE LET dead == DeadCells(h, width, height)
             set  == SetAliveCells(dead.heap, dead.cells, aliveCells, width, height)
         IN  IF set.err # "none"
             THEN [err |-> set.err, heap |-> h, grid |-> <<>>]
             ELSE [err  |-> "none",
                   heap |-> AssignNeighbors(set.heap, dead.cells, width, height),
                   grid |-> [cells |-> dead.cells, width |-> width,
                             height |-> height, generation |-> 0]]

(***************************************************************************)
(* createNextGeneration and the rule.                                      *)
(***************************************************************************)
countLiveNeighbors(h, cell) ==
    Cardinality({k \in DOMAIN cell.neighbors : h[cell.neighbors[k]].state = "alive"})

\* A survival rule that forgets the case of three neighbours.
shouldSurviveTwoOnly(h, cell) ==
    cell.state = "alive" /\ countLiveNeighbors(h, cell) = 2

shouldSurvive(h, cell) ==
    LET liveNeighbors == countLiveNeighbors(h, cell)
    IN  cell.state = "alive" /\ (liveNeighbors = 2 \/ liveNeighbors = 3)

\* A birth rule that also fires below three neighbours.
shouldBeBornUpToThree(h, cell) ==
    cell.state = "dead" /\ countLiveNeighbors(h, cell) <= 3

\* A birth rule with the wrong count.
shouldBeBornOnTwo(h, cell) ==
    cell.state = "dead" /\ countLiveNeighbors(h, cell) = 2

shouldBeBorn(h, cell) ==
    LET liveNeighbors == countLiveNeighbors(h, cell)
    IN  cell.state = "dead" /\ liveNeighbors = 3

\* A rule that forgets survival: only births give an alive cell.
getNextCellStateBirthOnly(h, cell) ==
    IF shouldBeBorn(h, cell) THEN "alive" ELSE "dead"

getNextCellState(h, cell) ==
    IF shouldSurvive(h, cell) \/ shouldBeBorn(h, cell) THEN "alive" ELSE "dead"

\* A map that updates the cells of the current grid in place.
MapCellsInPlace(h, currentGrid) ==
    [heap  |-> [r \in DOMAIN h |->
                   IF r \in RefsOf(currentGrid.cells)
                   THEN [h[r] EXCEPT !.state = getNextCellState(h, h[r])]
                   ELSE h[r]],
     cells |-> currentGrid.cells]

\* currentGrid.cells.map(row => row.map(cell => ({ ...cell, state }))): one
\* new cell object per cell, a copy of the old one (its coordinates and its
\* neighbour list) but for the state, which the rule computes on the old heap.
MapCells(h, currentGrid) ==
    LET old  == currentGrid.cells
        cols == IF old = <<>> THEN 0 ELSE Len(old[1])
        copy == [i \in 1..Len(old) * cols |->
                    LET cell == h[old[((i - 1) \div cols) + 1][((i - 1) % cols) + 1]]
                    IN  [cell EXCEPT !.state = getNextCellState(h, cell)]]
    IN  [heap  |-> h \o copy,
         cells |-> [y \in DOMAIN old |->
                      [x \in DOMAIN old[y] |-> Len(h) + (y - 1) * cols + x]]]

\* A rebuild that is left out: the new cells keep the copied neighbour lists.
RebuildNeighborsSkipped(h, newCells, currentGrid) == h

\* The second loop of createNextGeneration: the neighbour lists of the new
\* cells are computed again, over newCells.
RebuildNeighbors(h, newCells, currentGrid) ==
    AssignNeighbors(h, newCells, currentGrid.width, currentGrid.height)

\* A generation that is carried over unchanged.
NextGenerationSame(currentGrid) == currentGrid.generation

NextGeneration(currentGrid) == currentGrid.generation + 1

\* What createNextGeneration(currentGrid) does on heap h: the heap it
\* leaves and the Grid it returns.
createNextGeneration(h, currentGrid) ==
    LET mapped == MapCells(h, currentGrid)
    IN  [heap |-> RebuildNeighbors(mapped.heap, mapped.cells, currentGrid),
         grid |-> [currentGrid EXCEPT !.cells = mapped.cells,
                                      !.generation = NextGeneration(currentGrid)]]

(***************************************************************************)
(* areGridsEqual.                                                          *)
(***************************************************************************)
\* An equality that also compares the generation counters.
areGridsEqualWithGeneration(h, grid1, grid2) ==
    /\ grid1.width = grid2.width
    /\ grid1.height = grid2.height
    /\ grid1.generation = grid2.generation
    /\ \A y \in 0..grid1.height - 1 : \A x \in 0..grid1.width - 1 :
          h[grid1.cells[y + 1][x + 1]].state = h[grid2.cells[y + 1][x + 1]].state

areGridsEqual(h, grid1, grid2) ==
    IF grid1.width # grid2.width \/ grid1.height # grid2.height
    THEN FALSE
    ELSE \A y \in 0..grid1.height - 1 : \A x \in 0..grid1.width - 1 :
            h[grid1.cells[y + 1][x + 1]].state = h[grid2.cells[y + 1][x + 1]].state

(***************************************************************************)
(* The state of the Home component: its six useState values and the timer  *)
(* of its effect.  `since` is a history variable: the alive positions of   *)
(* the grid that the last construction left, and the number of             *)
(* advanceGeneration invocations since then.                               *)
(***************************************************************************)
VARIABLES aliveCells, grid, isRunning, isAutoAdvancing, isDragging, dragState,
          intervalId, since

homeVars == <<aliveCells, grid, isRunning, isAutoAdvancing, isDragging, dragState,
              intervalId, since>>

vars == <<args, heap, grids, origin, call, homeVars>>

\* No Home component is rendered: the engine is called on its own.
NotRendered ==
    /\ aliveCells = <<>>
    /\ grid = <<>>
    /\ isRunning = FALSE
    /\ isAutoAdvancing = FALSE
    /\ isDragging = FALSE
    /\ dragState = "alive"
    /\ intervalId = "null"
    /\ since = [alive |-> {}, count |-> 0]

(***************************************************************************)
(* The engine's calls.                                                     *)
(***************************************************************************)
NoCall == [err |-> "none", op |-> "none", a |-> 0, b |-> 0, ret |-> 0, eq |-> FALSE]

\* createInitialGrid(args[k].width, args[k].height, args[k].aliveCells)
Construct(k) ==
    /\ LET r == createInitialGrid(heap, args[k].width, args[k].height, args[k].aliveCells)
       IN  IF r.err = "none"
           THEN /\ heap' = r.heap
                /\ grids' = Append(grids, r.grid)
                /\ origin' = Append(origin, [op |-> "construct", from |-> k])
                /\ call' = [NoCall EXCEPT !.op = "construct", !.a = k,
                                          !.ret = Len(grids) + 1]
           ELSE /\ call' = [NoCall EXCEPT !.op = "construct", !.a = k, !.err = r.err]
                /\ UNCHANGED <<heap, grids, origin>>
    /\ UNCHANGED <<args, homeVars>>

\* createNextGeneration(grids[i])
Step(i) ==
    /\ LET r == createNextGeneration(heap, grids[i])
       IN  /\ heap' = r.heap
           /\ grids' = Append(grids, r.grid)
    /\ origin' = Append(origin, [op |-> "step", from |-> i])
    /\ call' = [NoCall EXCEPT !.op = "step", !.a = i, !.ret = Len(grids) + 1]
    /\ UNCHANGED <<args, homeVars>>

\* areGridsEqual(grids[i], grids[j])
Equals(i, j) ==
    /\ call' = [NoCall EXCEPT !.op = "equals", !.a = i, !.b = j,
                              !.eq = areGridsEqual(heap, grids[i], grids[j])]
    /\ UNCHANGED <<args, heap, grids, origin, homeVars>>

(***************************************************************************)
(* Spec: one argument triple with positive dimensions and a list of        *)
(* in-range coordinates, then any calls of the three engine functions.     *)
(***************************************************************************)
\* The coordinate of the i-th cell (counted from 0, row by row).
CoordOf(i, width) == [x |-> i % width, y |-> i \div width]

\* The lists that name each cell of a subset of the width * height cells once.
Patterns(width, height) ==
    {[k \in DOMAIN SetToSeq(S) |-> CoordOf(SetToSeq(S)[k], width)] :
        S \in SUBSET (0..width * height - 1)}

\* The argument triples with dimensions of at most maxDim, at most maxCells
\* cells, and a list from Patterns.
ArgsWithin(maxDim, maxCells) ==
    UNION {{[width |-> d[1], height |-> d[2], aliveCells |-> p] :
                p \in Patterns(d[1], d[2])} :
            d \in {d \in (1..maxDim) \X (1..maxDim) : d[1] * d[2] <= maxCells}}

NothingCalled ==
    /\ heap = <<>>
    /\ grids = <<>>
    /\ origin = <<>>
    /\ call = NoCall
    /\ NotRendered

Init ==
    /\ args \in {<<a>> : a \in ArgsWithin(MaxDim, MaxCells)}
    /\ NothingCalled

\* Whether a behaviour of Spec may still allocate a grid of n cells.
Room(n) == Len(grids) < MaxGrids /\ Len(heap) + n <= MaxHeap

Next ==
    \/ \E k \in DOMAIN args :
          Room(args[k].width * args[k].height) /\ Construct(k)
    \/ \E i \in DOMAIN grids :
          Room(grids[i].width * grids[i].height) /\ Step(i)
    \/ \E i \in DOMAIN grids : \E j \in DOMAIN grids : Equals(i, j)

Spec == Init /\ [][Next]_vars

(***************************************************************************)
(* SpecConstruct: one call of createInitialGrid on any dimensions          *)
(* (negative, zero, positive) and any short list of coordinates (in range, *)
(* too large, negative, repeated).                                         *)
(***************************************************************************)
RawArgs ==
    [width : -1..MaxCDim, height : -1..MaxCDim,
     aliveCells : SeqsUpTo([x : -1..MaxCDim - 1, y : -1..MaxCDim - 1], MaxCoords)]

InitConstruct ==
    /\ args \in {<<a>> : a \in RawArgs}
    /\ NothingCalled

NextConstruct == \E k \in DOMAIN args : grids = <<>> /\ Construct(k)

SpecConstruct == InitConstruct /\ [][NextConstruct]_vars

(***************************************************************************)
(* SpecEquals: two grids, constructed from two argument triples, then      *)
(* createNextGeneration and areGridsEqual on them and on what they become. *)
(***************************************************************************)
InitEquals ==
    /\ args \in {<<a, b>> : a \in ArgsWithin(MaxEqDim, MaxEqCells),
                            b \in ArgsWithin(MaxEqDim, MaxEqCells)}
    /\ LET first  == createInitialGrid(<<>>, args[1].width, args[1].height,
                                       args[1].aliveCells)
           second == createInitialGrid(first.heap, args[2].width, args[2].height,
                                       args[2].aliveCells)
       IN  /\ heap = second.heap
           /\ grids = <<first.grid, second.grid>>
    /\ origin = <<[op |-> "construct", from |-> 1], [op |-> "construct", from |-> 2]>>
    /\ call = [NoCall EXCEPT !.op = "construct", !.a = 2, !.ret = 2]
    /\ NotRendered

NextEquals ==
    \/ \E i \in DOMAIN grids : Len(grids) < MaxEqGrids /\ Step(i)
    \/ \E i \in DOMAIN grids : \E j \in DOMAIN grids : Equals(i, j)

SpecEquals == InitEquals /\ [][NextEquals]_vars

(***************************************************************************)
(* SpecBlinker: a grid of at least 3 x 3 cells holding one blinker (three  *)
(* cells in a row or in a column, anywhere it fits), stepped and compared. *)
(***************************************************************************)
BlinkerArgs ==
    UNION {
        {[width |-> d[1], height |-> d[2],
          aliveCells |-> <<[x |-> q[1], y |-> q[2]], [x |-> q[1] + 1, y |-> q[2]],
                           [x |-> q[1] + 2, y |-> q[2]]>>] :
            q \in (0..d[1] - 3) \X (0..d[2] - 1)}
        \cup
        {[width |-> d[1], height |-> d[2],
          aliveCells |-> <<[x |-> q[1], y |-> q[2]], [x |-> q[1], y |-> q[2] + 1],
                           [x |-> q[1], y |-> q[2] + 2]>>] :
            q \in (0..d[1] - 1) \X (0..d[2] - 3)} :
        d \in (3..MaxBlinkerDim) \X (3..MaxBlinkerDim)}

InitBlinker ==
    /\ args \in {<<a>> : a \in BlinkerArgs}
    /\ NothingCalled

NextBlinker ==
    \/ \E k \in DOMAIN args : grids = <<>> /\ Construct(k)
    \/ \E i \in DOMAIN grids : Len(grids) < MaxBlinkerGrids /\ Step(i)
    \/ \E i \in DOMAIN grids : \E j \in DOMAIN grids : Equals(i, j)

SpecBlinker == InitBlinker /\ [][NextBlinker]_vars

(***************************************************************************)
(* SpecBlock: a grid of at least 2 x 2 cells holding one block (a 2 x 2    *)
(* square of alive cells, anywhere it fits, the edges and corners          *)
(* included), stepped and compared.                                        *)
(***************************************************************************)
BlockArgs ==
    UNION {
        {[width |-> d[1], height |-> d[2],
          aliveCells |-> <<[x |-> q[1], y |-> q[2]], [x |-> q[1], y |-> q[2] + 1],
                           [x |-> q[1] + 1, y |-> q[2]],
                           [x |-> q[1] + 1, y |-> q[2] + 1]>>] :
            q \in (0..d[1] - 2) \X (0..d[2] - 2)} :
        d \in (2..MaxBlockDim) \X (2..MaxBlockDim)}

InitBlock ==
    /\ args \in {<<a>> : a \in BlockArgs}
    /\ NothingCalled

NextBlock ==
    \/ \E k \in DOMAIN args : grids = <<>> /\ Construct(k)
    \/ \E i \in DOMAIN grids : Len(grids) < MaxBlockGrids /\ Step(i)
    \/ \E i \in DOMAIN grids : \E j \in DOMAIN grids : Equals(i, j)

SpecBlock == InitBlock /\ [][NextBlock]_vars

(***************************************************************************)
(* The Home component.  Each event handler and each timer callback is one  *)
(* action: React commits the state updates of one event, and runs the      *)
(* effects that depend on them, before the next event is delivered, so a   *)
(* handler reads the state the previous event left.  The heap holds the    *)
(* cell objects of the current grid only.                                  *)
(***************************************************************************)
width == 25
height == 25

\* The positions of a grid whose cell is alive on heap h.
AliveIn(h, g) ==
    {p \in (0..g.width - 1) \X (0..g.height - 1) :
        h[g.cells[p[2] + 1][p[1] + 1]].state = "alive"}

\* Once setGrid has replaced the grid, the cells of the previous one are
\* unreachable: the heap keeps the cells of g, the last ones allocated.
Collect(h, g) ==
    LET offset == Len(h) - g.width * g.height
    IN  [heap |-> [i \in 1..g.width * g.height |->
                     LET cell == h[i + offset]
                     IN  [cell EXCEPT
                            !.neighbors = [k \in DOMAIN cell.neighbors |->
                                              cell.neighbors[k] - offset]]],
         grid |-> [g EXCEPT
                     !.cells = [r \in DOMAIN g.cells |->
                                  [c \in DOMAIN g.cells[r] |-> g.cells[r][c] - offset]]]]

\* The effect of lines 142-150: after a render in which isRunning or
\* isAutoAdvancing changed, the old interval is cleared and a new one is set
\* when both are true.
useEffectInterval(running, autoAdvancing) ==
    IF running /\ autoAdvancing THEN "set" ELSE "null"

\* An updater argument that is the grid of the first render (the closure
\* of the memoised callback) and not the current one.
UpdaterArgumentAtMount(h, currentGrid) ==
    LET first == createInitialGrid(<<>>, width, height, <<>>)
    IN  [heap |-> first.heap, grid |-> first.grid]

\* setGrid(currentGrid => ...): React passes the updater the current state.
UpdaterArgument(h, currentGrid) == [heap |-> h, grid |-> currentGrid]

\* A halt on every step, whatever the comparison says.
HaltAlways(equal, running, autoAdvancing) ==
    [isRunning |-> FALSE, isAutoAdvancing |-> FALSE]

\* A halt that clears isAutoAdvancing only.
HaltAutoOnly(equal, running, autoAdvancing) ==
    IF equal THEN [isRunning |-> running, isAutoAdvancing |-> FALSE]
    ELSE [isRunning |-> running, isAutoAdvancing |-> autoAdvancing]

\* if (areGridsEqual(currentGrid, nextGrid)) { setIsAutoAdvancing(false);
\* setIsRunning(false); }
Halt(equal, running, autoAdvancing) ==
    IF equal THEN [isRunning |-> FALSE, isAutoAdvancing |-> FALSE]
    ELSE [isRunning |-> running, isAutoAdvancing |-> autoAdvancing]

\* advanceGeneration, called by the Next button (op = "next") or by the
\* interval (op = "tick").
advanceGeneration(op) ==
    \E current \in {UpdaterArgument(heap, grid)} :
    \E next \in {createNextGeneration(current.heap, current.grid)} :
    \E equal \in {areGridsEqual(next.heap, current.grid, next.grid)} :
    \E kept \in {Collect(next.heap, next.grid)} :
    \E flags \in {Halt(equal, isRunning, isAutoAdvancing)} :
        /\ heap' = kept.heap
        /\ grid' = kept.grid
        /\ isRunning' = flags.isRunning
        /\ isAutoAdvancing' = flags.isAutoAdvancing
        /\ intervalId' = useEffectInterval(flags.isRunning, flags.isAutoAdvancing)
        /\ since' = [since EXCEPT !.count = @ + 1]
        /\ call' = [NoCall EXCEPT !.op = op, !.eq = equal]
        /\ UNCHANGED <<aliveCells, isDragging, dragState, args, grids, origin>>

\* The updater of setAliveCells in toggleCellState: the first cell of the
\* list at (x, y) is removed, or a cell at (x, y) is appended.
ToggleAliveCells(currentAliveCells, x, y) ==
    LET found == {i \in DOMAIN currentAliveCells :
                     currentAliveCells[i].x = x /\ currentAliveCells[i].y = y}
        cellIndex == IF found = {} THEN -1
                     ELSE CHOOSE i \in found : \A j \in found : i <= j
    IN  IF cellIndex > -1
        THEN [k \in 1..Len(currentAliveCells) - 1 |->
                 IF k < cellIndex THEN currentAliveCells[k]
                 ELSE currentAliveCells[k + 1]]
        ELSE Append(currentAliveCells,
                    [x |-> x, y |-> y, state |-> "alive", neighbors |-> <<>>])

\* const newAliveCells = [...aliveCells, { state: 'alive', x, y, neighbors: [] }]
\* over the aliveCells of the render the handler belongs to.
newAliveCells(currentAliveCells, x, y) ==
    Append(currentAliveCells,
           [x |-> x, y |-> y, state |-> "alive", neighbors |-> <<>>])

toggleCellState(x, y) ==
    IF isRunning
    THEN UNCHANGED <<aliveCells, heap, grid, since>>
    ELSE \E newGrid \in {createInitialGrid(<<>>, width, height,
                                              newAliveCells(aliveCells, x, y))} :
             /\ aliveCells' = ToggleAliveCells(aliveCells, x, y)
             /\ heap' = newGrid.heap
             /\ grid' = newGrid.grid
             /\ since' = [alive |-> AliveIn(newGrid.heap, newGrid.grid), count |-> 0]

\* A handler without its guard.
MouseDownNeverIgnored == FALSE

\* if (isRunning) return;
MouseDownIgnored == isRunning

handleMouseDown(x, y) ==
    /\ IF MouseDownIgnored
       THEN UNCHANGED <<aliveCells, heap, grid, since, isDragging, dragState>>
       ELSE /\ isDragging' = TRUE
            /\ dragState' = IF StateAt(grid, x, y) = "alive" THEN "dead" ELSE "alive"
            /\ toggleCellState(x, y)
    /\ call' = [NoCall EXCEPT !.op = "mousedown"]
    /\ UNCHANGED <<isRunning, isAutoAdvancing, intervalId, args, grids, origin>>

handleMouseEnter(x, y) ==
    /\ IF isRunning \/ ~isDragging
       THEN UNCHANGED <<aliveCells, heap, grid, since>>
       ELSE IF \/ dragState = "alive" /\ StateAt(grid, x, y) = "dead"
               \/ dragState = "dead" /\ StateAt(grid, x, y) = "alive"
            THEN toggleCellState(x, y)
            ELSE UNCHANGED <<aliveCells, heap, grid, since>>
    /\ call' = [NoCall EXCEPT !.op = "mouseenter"]
    /\ UNCHANGED <<isRunning, isAutoAdvancing, isDragging, dragState, intervalId,
                   args, grids, origin>>

\* The window's mouseup listener.
handleMouseUp ==
    /\ isDragging' = FALSE
    /\ call' = [NoCall EXCEPT !.op = "mouseup"]
    /\ UNCHANGED <<aliveCells, heap, grid, since, isRunning, isAutoAdvancing,
                   dragState, intervalId, args, grids, origin>>

\* onMouseLeave of the grid element.
MouseLeave ==
    /\ isDragging' = FALSE
    /\ call' = [NoCall EXCEPT !.op = "mouseleave"]
    /\ UNCHANGED <<aliveCells, heap, grid, since, isRunning, isAutoAdvancing,
                   dragState, intervalId, args, grids, origin>>

\* The Start button, rendered while isRunning is false.
startSimulation ==
    /\ ~isRunning
    /\ isRunning' = TRUE
    /\ intervalId' = useEffectInterval(TRUE, isAutoAdvancing)
    /\ call' = [NoCall EXCEPT !.op = "start"]
    /\ UNCHANGED <<aliveCells, heap, grid, since, isAutoAdvancing, isDragging,
                   dragState, args, grids, origin>>

\* The Auto / Pause button, rendered while isRunning is true.
toggleAutoAdvance ==
    /\ isRunning
    /\ isAutoAdvancing' = ~isAutoAdvancing
    /\ intervalId' = useEffectInterval(isRunning, ~isAutoAdvancing)
    /\ call' = [NoCall EXCEPT !.op = "auto"]
    /\ UNCHANGED <<aliveCells, heap, grid, since, isRunning, isDragging,
                   dragState, args, grids, origin>>

\* The Next button, rendered while isRunning is true.
NextClick == isRunning /\ advanceGeneration("next")

\* The callback of the interval.
TimerTick == intervalId = "set" /\ advanceGeneration("tick")

\* A reset that leaves the grid as it is.
resetGridKeepsGrid ==
    /\ aliveCells' = <<>>
    /\ isRunning' = FALSE
    /\ isAutoAdvancing' = FALSE
    /\ intervalId' = "null"
    /\ call' = [NoCall EXCEPT !.op = "reset"]
    /\ UNCHANGED <<heap, grid, since, isDragging, dragState, args, grids, origin>>

\* A reset that leaves isAutoAdvancing as it is.
resetGridKeepsAuto ==
    \E newGrid \in {createInitialGrid(<<>>, width, height, <<>>)} :
        /\ aliveCells' = <<>>
        /\ heap' = newGrid.heap
        /\ grid' = newGrid.grid
        /\ isRunning' = FALSE
        /\ intervalId' = "null"
        /\ since' = [alive |-> AliveIn(newGrid.heap, newGrid.grid), count |-> 0]
        /\ call' = [NoCall EXCEPT !.op = "reset"]
        /\ UNCHANGED <<isAutoAdvancing, isDragging, dragState, args, grids, origin>>

\* A reset that leaves the list of alive cells as it is.
resetGridKeepsAliveCells ==
    \E newGrid \in {createInitialGrid(<<>>, width, height, <<>>)} :
        /\ heap' = newGrid.heap
        /\ grid' = newGrid.grid
        /\ isRunning' = FALSE
        /\ isAutoAdvancing' = FALSE
        /\ intervalId' = "null"
        /\ since' = [alive |-> AliveIn(newGrid.heap, newGrid.grid), count |-> 0]
        /\ call' = [NoCall EXCEPT !.op = "reset"]
        /\ UNCHANGED <<aliveCells, isDragging, dragState, args, grids, origin>>

\* The Reset button, always rendered.
resetGrid ==
    \E newGrid \in {createInitialGrid(<<>>, width, height, <<>>)} :
        /\ aliveCells' = <<>>
        /\ heap' = newGrid.heap
        /\ grid' = newGrid.grid
        /\ isRunning' = FALSE
        /\ isAutoAdvancing' = FALSE
        /\ intervalId' = useEffectInterval(FALSE, FALSE)
        /\ since' = [alive |-> AliveIn(newGrid.heap, newGrid.grid), count |-> 0]
        /\ call' = [NoCall EXCEPT !.op = "reset"]
        /\ UNCHANGED <<isDragging, dragState, args, grids, origin>>

(***************************************************************************)
(* SpecHome: the page after its first render, then any sequence of the     *)
(* user's events and of timer callbacks.  The mouse reaches the cells of   *)
(* EditCells.                                                              *)
(***************************************************************************)
EditCells == {<<1 + (i % 2), 1 + (i \div 2)>> : i \in 0..MaxEditCells - 1}

\* The Home component after its first render.
Rendered ==
    LET first == createInitialGrid(<<>>, width, height, <<>>)
    IN  /\ aliveCells = <<>>
        /\ heap = first.heap
        /\ grid = first.grid
        /\ isRunning = FALSE
        /\ isAutoAdvancing = FALSE
        /\ isDragging = FALSE
        /\ dragState = "alive"
        /\ intervalId = "null"
        /\ since = [alive |-> {}, count |-> 0]

InitHome ==
    /\ args = <<>>
    /\ grids = <<>>
    /\ origin = <<>>
    /\ call = NoCall
    /\ Rendered

NextHome ==
    \/ \E p \in EditCells : handleMouseDown(p[1], p[2])
    \/ \E p \in EditCells : handleMouseEnter(p[1], p[2])
    \/ handleMouseUp
    \/ MouseLeave
    \/ startSimulation
    \/ toggleAutoAdvance
    \/ grid.generation < MaxGeneration /\ NextClick
    \/ grid.generation < MaxGeneration /\ TimerTick
    \/ resetGrid

SpecHome == InitHome /\ [][NextHome]_vars

(***************************************************************************)
(* SpecRun: the page after the user has drawn a pattern (one click on each *)
(* of its cells, all dead before), then any sequence of button clicks and  *)
(* timer callbacks, without further edits.  The patterns are the subsets   *)
(* of the first MaxPatternCells cells of a band three cells wide, which    *)
(* holds blocks, blinkers and patterns that die out.                       *)
(***************************************************************************)
PatternCell(i) ==
    [x |-> 1 + (i % 3), y |-> 1 + (i \div 3), state |-> "alive", neighbors |-> <<>>]

DrawnPatterns ==
    {[k \in DOMAIN SetToSeq(S) |-> PatternCell(SetToSeq(S)[k])] :
        S \in SUBSET (0..MaxPatternCells - 1)}

\* The page after clicks on the cells of `list`, in this order, the mouse
\* button released.
Drawn(list) ==
    \E drawn \in {createInitialGrid(<<>>, width, height, list)} :
        /\ aliveCells = list
        /\ heap = drawn.heap
        /\ grid = drawn.grid
        /\ isDragging = FALSE
        /\ dragState = "alive"
        /\ since = [alive |-> AliveIn(drawn.heap, drawn.grid), count |-> 0]

InitRun ==
    /\ args = <<>>
    /\ grids = <<>>
    /\ origin = <<>>
    /\ call = NoCall
    /\ \E list \in DrawnPatterns : Drawn(list)
    /\ isRunning = FALSE
    /\ isAutoAdvancing = FALSE
    /\ intervalId = "null"

NextRun ==
    \/ startSimulation
    \/ toggleAutoAdvance
    \/ grid.generation < MaxRunGeneration /\ NextClick
    \/ grid.generation < MaxRunGeneration /\ TimerTick
    \/ resetGrid

SpecRun == InitRun /\ [][NextRun]_vars

(***************************************************************************)
(* SpecAuto: the page after the user has drawn a pattern and pressed Start *)
(* and Auto, then timer callbacks only.  The interval fires again and      *)
(* again while it is set: weak fairness of the callback.  A step of        *)
(* NextAuto is the one step that raises the invocation count, and it is    *)
(* possible exactly when the interval is set, so the fairness is stated on *)
(* the count.                                                              *)
(***************************************************************************)
InitAuto ==
    /\ args = <<>>
    /\ grids = <<>>
    /\ origin = <<>>
    /\ call = [NoCall EXCEPT !.op = "auto"]
    /\ \E list \in DrawnPatterns : Drawn(list)
    /\ isRunning = TRUE
    /\ isAutoAdvancing = TRUE
    /\ intervalId = useEffectInterval(TRUE, TRUE)

NextAuto == grid.generation < MaxAutoGeneration /\ TimerTick

\* The interval invokes its callback once more.
IntervalFires ==
    /\ grid.generation < MaxAutoGeneration
    /\ intervalId = "set"
    /\ since' = [since EXCEPT !.count = @ + 1]

SpecAuto == InitAuto /\ [][NextAuto]_vars /\ WF_since(IntervalFires)

(***************************************************************************)
(* The rule and the adjacency stated over coordinates, for the properties  *)
(* below: they read the grid by position and never a neighbour list.       *)
(***************************************************************************)
InGrid(g, x, y) == x >= 0 /\ x < g.width /\ y >= 0 /\ y < g.height

Positions(g) == (0..g.width - 1) \X (0..g.height - 1)

\* The in-bounds positions among the eight around (x, y).
Around(g, x, y) ==
    {p \in ((x - 1)..(x + 1)) \X ((y - 1)..(y + 1)) :
        p # <<x, y>> /\ InGrid(g, p[1], p[2])}

LiveAround(g, x, y) ==
    Cardinality({p \in Around(g, x, y) : StateAt(g, p[1], p[2]) = "alive"})

\* Conway's rule for position (x, y) of g.
RuleAlive(g, x, y) ==
    \/ StateAt(g, x, y) = "alive" /\ LiveAround(g, x, y) \in {2, 3}
    \/ StateAt(g, x, y) = "dead" /\ LiveAround(g, x, y) = 3

SameStates(g1, g2) ==
    /\ g1.width = g2.width
    /\ g1.height = g2.height
    /\ \A p \in Positions(g1) : StateAt(g1, p[1], p[2]) = StateAt(g2, p[1], p[2])

\* The grids a createNextGeneration call returned.
Stepped == {j \in DOMAIN grids : origin[j].op = "step"}

\* The grids a createInitialGrid call returned.
Constructed == {j \in DOMAIN grids : origin[j].op = "construct"}

(***************************************************************************)
(* C1.  For every grid g and position (x, y), the cell at (x, y) of        *)
(* createNextGeneration(g) is alive exactly when the cell of g is alive    *)
(* with 2 or 3 alive in-bounds neighbours in g, or dead with exactly 3;    *)
(* the count is that of the input grid g.                                  *)
(***************************************************************************)
C1_StepFollowsRule ==
    \A j \in Stepped :
        LET g == grids[origin[j].from]
        IN  \A p \in Positions(g) :
                /\ StateAt(grids[j], p[1], p[2]) \in {"alive", "dead"}
                /\ StateAt(grids[j], p[1], p[2]) = "alive" <=> RuleAlive(g, p[1], p[2])

\* One step with a birth, a survival on three neighbours, a death by
\* overcrowding and a death by isolation.
C1_Witness ==
    \E j \in Stepped :
        LET g == grids[origin[j].from]
            n == grids[j]
        IN  /\ \E p \in Positions(g) :
                  /\ StateAt(g, p[1], p[2]) = "dead"
                  /\ StateAt(n, p[1], p[2]) = "alive"
            /\ \E p \in Positions(g) :
                  /\ StateAt(g, p[1], p[2]) = "alive"
                  /\ LiveAround(g, p[1], p[2]) = 3
                  /\ StateAt(n, p[1], p[2]) = "alive"
            /\ \E p \in Positions(g) :
                  /\ StateAt(g, p[1], p[2]) = "alive"
                  /\ LiveAround(g, p[1], p[2]) >= 4
                  /\ StateAt(n, p[1], p[2]) = "dead"
            /\ \E p \in Positions(g) :
                  /\ StateAt(g, p[1], p[2]) = "alive"
                  /\ LiveAround(g, p[1], p[2]) < 2
                  /\ StateAt(n, p[1], p[2]) = "dead"

(***************************************************************************)
(* C2.  createNextGeneration(g).generation = g.generation + 1, for every   *)
(* input generation and pattern, also when the cell states do not change.  *)
(***************************************************************************)
C2_GenerationPlusOne ==
    \A j \in Stepped :
        grids[j].generation = grids[origin[j].from].generation + 1

\* A step from a grid of generation 1 or more that changes no cell state.
C2_Witness ==
    \E j \in Stepped :
        /\ grids[origin[j].from].generation >= 1
        /\ SameStates(grids[origin[j].from], grids[j])
        /\ \E p \in Positions(grids[j]) : StateAt(grids[j], p[1], p[2]) = "alive"

(***************************************************************************)
(* C6.  The neighbour list of the cell at (x, y) holds exactly the cells   *)
(* at the in-bounds positions among the eight around (x, y), no            *)
(* wraparound: eight entries for an interior cell, fewer for a cell on an  *)
(* edge or in a corner, never the cell itself, never a cell twice.         *)
(***************************************************************************)
C6_NeighborsAreAdjacentCells ==
    \A i \in DOMAIN grids :
        LET g == grids[i]
        IN  \A p \in Positions(g) :
                LET self == g.cells[p[2] + 1][p[1] + 1]
                    nb == heap[self].neighbors
                    interior == /\ p[1] > 0 /\ p[1] < g.width - 1
                                /\ p[2] > 0 /\ p[2] < g.height - 1
                IN  /\ {nb[k] : k \in DOMAIN nb} =
                          {g.cells[q[2] + 1][q[1] + 1] : q \in Around(g, p[1], p[2])}
                    /\ \A k \in DOMAIN nb : \A l \in DOMAIN nb :
                          nb[k] = nb[l] => k = l
                    /\ \A k \in DOMAIN nb : nb[k] # self
                    /\ interior => Len(nb) = 8
                    /\ ~interior => Len(nb) < 8

\* A stepped 3 x 3 grid: its centre has eight neighbours, a corner three
\* and an edge cell five.
C6_Witness ==
    \E j \in Stepped :
        /\ grids[j].width = 3
        /\ grids[j].height = 3
        /\ Len(heap[grids[j].cells[2][2]].neighbors) = 8
        /\ Len(heap[grids[j].cells[1][1]].neighbors) = 3
        /\ Len(heap[grids[j].cells[1][2]].neighbors) = 5

(***************************************************************************)
(* C8.  No engine call changes a grid returned earlier: every cell object  *)
(* and every Grid object that exists keeps its state, coordinates,         *)
(* neighbour list, cells and generation; the grid a call returns is a new  *)
(* object made of new cell objects; and two createInitialGrid calls with   *)
(* the same arguments return two such grids that areGridsEqual holds of.   *)
(***************************************************************************)
ObjectsKept ==
    /\ \A r \in DOMAIN heap : r \in DOMAIN heap' /\ heap'[r] = heap[r]
    /\ \A i \in DOMAIN grids : i \in DOMAIN grids' /\ grids'[i] = grids[i]

DistinctInstances ==
    \A i \in DOMAIN grids : \A j \in DOMAIN grids :
        i # j => RefsOf(grids[i].cells) \cap RefsOf(grids[j].cells) = {}

SameArgumentsSameGrid ==
    \A i \in Constructed : \A j \in Constructed :
        args[origin[i].from] = args[origin[j].from]
            => areGridsEqual(heap, grids[i], grids[j])

\* C8: grids never share cell objects, equal arguments give equal grids,
\* and no step of the engine changes an object that already exists.
C8_NoGridIsMutated ==
    /\ [](DistinctInstances /\ SameArgumentsSameGrid)
    /\ [][ObjectsKept]_vars

\* Two grids constructed from the same arguments, and a step of the first
\* that changed a cell state.
C8_Witness ==
    /\ \E i \in Constructed : \E j \in Constructed :
          i # j /\ origin[i].from = origin[j].from
    /\ \E j \in Stepped :
          /\ origin[j].from \in Constructed
          /\ ~SameStates(grids[origin[j].from], grids[j])

(***************************************************************************)
(* C9.  Every grid made by createInitialGrid and any number of             *)
(* createNextGeneration calls is well formed: height rows of width cells,  *)
(* the cell at cells[y][x] carries (x, y), and every neighbour of a cell   *)
(* is a cell object of the same grid.                                      *)
(***************************************************************************)
WellFormed(g) ==
    /\ Len(g.cells) = g.height
    /\ \A y \in DOMAIN g.cells : Len(g.cells[y]) = g.width
    /\ \A p \in Positions(g) :
          LET cell == heap[g.cells[p[2] + 1][p[1] + 1]]
          IN  /\ cell.x = p[1]
              /\ cell.y = p[2]
              /\ \A k \in DOMAIN cell.neighbors :
                    cell.neighbors[k] \in RefsOf(g.cells)

\* C9: every grid returned so far is well formed.
C9_GridsAreWellFormed == \A i \in DOMAIN grids : WellFormed(grids[i])

\* A grid two steps after its construction whose cells have neighbours.
C9_Witness ==
    \E j \in Stepped :
        /\ origin[j].from \in Stepped
        /\ grids[j].generation = 2
        /\ \E r \in RefsOf(grids[j].cells) : heap[r].neighbors # <<>>

(***************************************************************************)
(* Properties of createInitialGrid, under SpecConstruct.                   *)
(***************************************************************************)
\* The arguments of the last call, a createInitialGrid call.
Given == args[call.a]

Occurs(list, x, y) ==
    \E k \in DOMAIN list : list[k].x = x /\ list[k].y = y

InRange(a, c) == c.x >= 0 /\ c.x < a.width /\ c.y >= 0 /\ c.y < a.height

AllInRange(a) == \A k \in DOMAIN a.aliveCells : InRange(a, a.aliveCells[k])

\* The last call returned a grid of the given dimensions and generation 0
\* whose alive cells are those the list names.
ReturnedGridOf(a) ==
    /\ call.err = "none"
    /\ call.ret \in DOMAIN grids
    /\ LET g == grids[call.ret]
       IN  /\ g.generation = 0
           /\ g.width = a.width
           /\ g.height = a.height
           /\ Len(g.cells) = a.height
           /\ \A y \in DOMAIN g.cells : Len(g.cells[y]) = a.width
           /\ \A p \in Positions(g) :
                 StateAt(g, p[1], p[2]) = "alive" <=> Occurs(a.aliveCells, p[1], p[2])

(***************************************************************************)
(* C3.  For width > 0, height > 0 and a list of in-range coordinates       *)
(* (duplicates allowed), createInitialGrid returns a grid of generation 0  *)
(* and of the given width and height whose cell at (x, y) is alive iff     *)
(* (x, y) occurs in the list; with the empty list every cell is dead.      *)
(***************************************************************************)
C3_ConstructMarksGivenCells ==
    (/\ call.op = "construct"
     /\ Given.width > 0
     /\ Given.height > 0
     /\ AllInRange(Given))
        => ReturnedGridOf(Given)

\* A call with a coordinate given twice and another cell left dead.
C3_Witness ==
    /\ call.op = "construct"
    /\ Given.width > 0 /\ Given.height > 0 /\ AllInRange(Given)
    /\ Len(Given.aliveCells) = 2
    /\ Given.aliveCells[1] = Given.aliveCells[2]
    /\ call.ret = 1
    /\ \E p \in Positions(grids[1]) : StateAt(grids[1], p[1], p[2]) = "alive"
    /\ \E p \in Positions(grids[1]) : StateAt(grids[1], p[1], p[2]) = "dead"

(***************************************************************************)
(* C4.  createInitialGrid ignores every coordinate outside                 *)
(* [0, width) x [0, height), too large or negative: no error, and the grid *)
(* returned is the one the in-range coordinates alone give.                *)
(***************************************************************************)
C4_OutOfRangeIgnored ==
    (/\ call.op = "construct"
     /\ Given.width > 0
     /\ Given.height > 0)
        => ReturnedGridOf(Given)

\* The part of C4 the code keeps: a list whose coordinates are all
\* non-negative is accepted, and those too large are dropped.
C4_TooLargeIgnored ==
    (/\ call.op = "construct"
     /\ Given.width > 0
     /\ Given.height > 0
     /\ \A k \in DOMAIN Given.aliveCells :
           Given.aliveCells[k].x >= 0 /\ Given.aliveCells[k].y >= 0)
        => ReturnedGridOf(Given)

(***************************************************************************)
(* C5.  createInitialGrid with width <= 0 or height <= 0 is rejected with  *)
(* an error; it never returns a grid with no rows or no columns.           *)
(***************************************************************************)
C5_BadDimensionsRejected ==
    (/\ call.op = "construct"
     /\ (Given.width <= 0 \/ Given.height <= 0))
        => call.err # "none" /\ grids = <<>>

(***************************************************************************)
(* C7.  areGridsEqual(gridA, gridB) is true iff the grids have the same    *)
(* width, the same height and the same state at every (x, y); generation   *)
(* and object identity play no part, and it is false whenever the widths   *)
(* or the heights differ.  Under SpecEquals.                               *)
(***************************************************************************)
C7_EqualsIsStateEquality ==
    call.op = "equals" =>
        LET a == grids[call.a]
            b == grids[call.b]
        IN  /\ call.eq <=> SameStates(a, b)
            /\ (a.width # b.width \/ a.height # b.height) => ~call.eq

\* areGridsEqual returned true for two grids of different generations, made
\* of different cell objects, with an alive cell.
C7_Witness ==
    /\ call.op = "equals"
    /\ call.eq
    /\ grids[call.a].generation # grids[call.b].generation
    /\ RefsOf(grids[call.a].cells) \cap RefsOf(grids[call.b].cells) = {}
    /\ \E p \in Positions(grids[call.a]) :
          StateAt(grids[call.a], p[1], p[2]) = "alive"

(***************************************************************************)
(* C10.  A blinker oscillates with period 2: two steps give back the cell  *)
(* states of g, and areGridsEqual(g, step(g)) is false.  Under             *)
(* SpecBlinker.                                                            *)
(***************************************************************************)
\* Two steps from the constructed grid give its states back, and the
\* comparison of the constructed grid with its step is false.
Oscillates ==
    /\ \A j \in Stepped : \A l \in Stepped :
          (origin[j].from \in Constructed /\ origin[l].from = j)
              => SameStates(grids[origin[j].from], grids[l])
    /\ (/\ call.op = "equals"
        /\ call.a \in Constructed
        /\ call.b \in Stepped
        /\ origin[call.b].from = call.a)
           => ~call.eq

\* C10 as stated: every blinker, wherever it lies in the grid, oscillates
\* with period 2.
C10_BlinkerOscillates == Oscillates

\* The row of a horizontal blinker (the column of a vertical one) is not
\* the first or the last of the grid.
OffTheEdge(a) ==
    LET c == a.aliveCells
    IN  IF c[1].y = c[2].y
        THEN c[1].y >= 1 /\ c[1].y <= a.height - 2
        ELSE c[1].x >= 1 /\ c[1].x <= a.width - 2

\* C10 as amended: a blinker whose row (for a horizontal blinker) or column
\* (for a vertical one) is not on the boundary of the grid oscillates with
\* period 2.
C10_InnerBlinkerOscillates == OffTheEdge(args[1]) => Oscillates

\* The blinker (1,2),(2,2),(3,2) of a 5 x 5 grid, stepped twice, and
\* compared with its first step.
C10_Witness ==
    /\ args[1] = [width |-> 5, height |-> 5,
                  aliveCells |-> <<[x |-> 1, y |-> 2], [x |-> 2, y |-> 2],
                                   [x |-> 3, y |-> 2]>>]
    /\ Len(grids) = 3
    /\ origin[2].from = 1
    /\ origin[3].from = 2
    /\ SameStates(grids[1], grids[3])
    /\ call.op = "equals" /\ call.a = 1 /\ call.b = 2 /\ ~call.eq

(***************************************************************************)
(* C11.  A block is a fixed point of createNextGeneration wherever it fits *)
(* in the grid, against an edge or in a corner included:                   *)
(* areGridsEqual(g, step(g)) is true.  Under SpecBlock.                    *)
(***************************************************************************)
C11_BlockIsFixedPoint ==
    /\ \A j \in Stepped : SameStates(grids[origin[j].from], grids[j])
    /\ (/\ call.op = "equals"
        /\ call.b \in Stepped
        /\ origin[call.b].from = call.a)
           => call.eq

\* A block in the corner (0, 0) of a 3 x 3 grid, compared with its step.
C11_Witness ==
    /\ args[1].width = 3 /\ args[1].height = 3
    /\ args[1].aliveCells[1] = [x |-> 0, y |-> 0]
    /\ call.op = "equals" /\ call.a = 1 /\ call.b = 2
    /\ origin[2] = [op |-> "step", from |-> 1]
    /\ call.eq
    /\ StateAt(grids[2], 1, 1) = "alive"
    /\ StateAt(grids[2], 2, 2) = "dead"

(***************************************************************************)
(* C12.  Stepping a grid whose cells are all dead gives a grid whose cells *)
(* are all dead, for every width and height, so an all-dead grid stays     *)
(* all-dead after any number of steps.  Under Spec.                        *)
(***************************************************************************)
AllDead(g) == \A p \in Positions(g) : StateAt(g, p[1], p[2]) = "dead"

C12_AllDeadStaysAllDead ==
    \A j \in Stepped : AllDead(grids[origin[j].from]) => AllDead(grids[j])

\* An all-dead grid of four cells or more, two steps after its construction.
C12_Witness ==
    \E j \in Stepped :
        /\ origin[j].from \in Stepped
        /\ AllDead(grids[origin[origin[j].from].from])
        /\ AllDead(grids[j])
        /\ grids[j].width * grids[j].height >= 4

(***************************************************************************)
(* The rule over sets of alive positions of the page's grid, for the       *)
(* properties of the Home component.                                       *)
(***************************************************************************)
AroundPosition(p) ==
    {q \in ((p[1] - 1)..(p[1] + 1)) \X ((p[2] - 1)..(p[2] + 1)) :
        q # p /\ q[1] >= 0 /\ q[1] < width /\ q[2] >= 0 /\ q[2] < height}

\* Conway's rule applied once to the set A of alive positions.  A position
\* with no alive position around it is dead after the step, so the alive
\* positions are among those of A and those around them.
RuleStep(A) ==
    {p \in A \cup UNION {AroundPosition(q) : q \in A} :
        LET live == Cardinality(AroundPosition(p) \cap A)
        IN  \/ p \in A /\ live \in {2, 3}
            \/ p \notin A /\ live = 3}

RECURSIVE RuleSteps(_, _)
\* Conway's rule applied n times.
RuleSteps(A, n) == IF n = 0 THEN A ELSE RuleSteps(RuleStep(A), n - 1)

\* The step is an advanceGeneration invocation.
Advanced == call'.op \in {"next", "tick"}

(***************************************************************************)
(* C13.  Whenever advanceGeneration computes next = step(current) and      *)
(* equals(current, next) is true, isAutoAdvancing and isRunning both       *)
(* become false and next still becomes the current grid; when it is false  *)
(* the two flags are left unchanged.  After a halt no timer-driven step    *)
(* happens until the user presses Start and Auto again: the interval is    *)
(* cleared, a timer callback runs only while both flags are true, and the  *)
(* flags are raised by the Start and the Auto button only.  Under SpecRun. *)
(***************************************************************************)
C13_HaltOnFixedPoint ==
    [][/\ Advanced =>
            LET equal == AliveIn(heap, grid) = AliveIn(heap', grid')
            IN  /\ AliveIn(heap', grid') = RuleStep(AliveIn(heap, grid))
                /\ grid'.generation = grid.generation + 1
                /\ call'.eq = equal
                /\ equal => /\ ~isRunning'
                            /\ ~isAutoAdvancing'
                            /\ intervalId' = "null"
                /\ ~equal => /\ isRunning' = isRunning
                             /\ isAutoAdvancing' = isAutoAdvancing
       /\ call'.op = "tick" => isRunning /\ isAutoAdvancing
       /\ (isRunning' /\ ~isRunning) => call'.op = "start"
       /\ (isAutoAdvancing' /\ ~isAutoAdvancing) => call'.op = "auto"
      ]_vars

\* A timer callback found a block unchanged by the step, and halted.
C13_Witness ==
    /\ call.op = "tick"
    /\ call.eq
    /\ AliveIn(heap, grid) = {<<1, 1>>, <<2, 1>>, <<1, 2>>, <<2, 2>>}
    /\ grid.generation = 2
    /\ ~isRunning
    /\ ~isAutoAdvancing
    /\ intervalId = "null"

\* The step is a mouse event that ran toggleCellState.
Edited == call'.op \in {"mousedown", "mouseenter"} /\ aliveCells' # aliveCells

(***************************************************************************)
(* C14.  As stated: across every sequence of cell edits, Start, Next,      *)
(* Auto / Pause, timer callbacks and Reset, the generation of the current  *)
(* grid starts at 0, goes up by exactly 1 on each step and is never        *)
(* decremented.  Under SpecHome.                                           *)
(***************************************************************************)
C14_GenerationNeverDecreases ==
    /\ grid.generation = 0
    /\ [][/\ Advanced => grid'.generation = grid.generation + 1
          /\ grid'.generation >= grid.generation]_vars

(***************************************************************************)
(* C14, amended: the generation of the current grid starts at 0, goes up   *)
(* by exactly 1 on each advanceGeneration, goes back to 0 on Reset and on  *)
(* every cell edit (both construct a new grid), and is left unchanged by   *)
(* every other event.  Under SpecHome.                                     *)
(***************************************************************************)
C14_GenerationRestartsOnConstruct ==
    /\ grid.generation = 0
    /\ [][grid'.generation =
            IF Advanced THEN grid.generation + 1
            ELSE IF call'.op = "reset" \/ Edited THEN 0
            ELSE grid.generation]_vars

\* Two timer callbacks after a pattern was drawn: generation 2.
C14_Witness ==
    /\ call.op = "tick"
    /\ since.count = 2
    /\ grid.generation = 2
    /\ aliveCells # <<>>

\* The coordinates a list of alive cells names.
CoordsOf(list) == {<<list[k].x, list[k].y>> : k \in DOMAIN list}

\* The elements of exactly one of two sets.
Changed(A, B) == (A \ B) \cup (B \ A)

(***************************************************************************)
(* C15.  After every cell edit (toggleCellState on any cell while          *)
(* isRunning is false) a cell is alive in the current grid if and only if  *)
(* its coordinate is in aliveCells as it stands after the edit: the        *)
(* toggled cell changes its state in the grid and no other cell changes.   *)
(* Under SpecHome.                                                         *)
(***************************************************************************)
C15_GridFollowsAliveCells ==
    [][Edited =>
          /\ AliveIn(heap', grid') = CoordsOf(aliveCells')
          /\ Changed(AliveIn(heap, grid), AliveIn(heap', grid'))
                = Changed(CoordsOf(aliveCells), CoordsOf(aliveCells'))]_vars

(***************************************************************************)
(* C16.  Under any interleaving of timer callbacks and Next clicks, each   *)
(* advanceGeneration invocation steps the grid the previous one left: n    *)
(* invocations since the last edit or Reset raise the generation by        *)
(* exactly n and leave the rule applied n times to the starting grid.      *)
(* Under SpecRun.                                                          *)
(***************************************************************************)
C16_StepsCompose ==
    /\ grid.generation = since.count
    /\ AliveIn(heap, grid) = RuleSteps(since.alive, since.count)

\* A blinker drawn in row 1, after three invocations, the last one a Next
\* click while the interval is running: it stands in column 2.
C16_Witness ==
    /\ call.op = "next"
    /\ intervalId = "set"
    /\ since.count = 3
    /\ since.alive = {<<1, 1>>, <<2, 1>>, <<3, 1>>}
    /\ AliveIn(heap, grid) = {<<2, 0>>, <<2, 1>>, <<2, 2>>}

\* The rule leaves the current grid as it is.
AtFixedPoint == RuleStep(AliveIn(heap, grid)) = AliveIn(heap, grid)

\* Three cells in a row or in a column.
Blinkers ==
    {{<<p[1], p[2]>>, <<p[1] + 1, p[2]>>, <<p[1] + 2, p[2]>>} :
        p \in (0..width - 3) \X (0..height - 1)}
    \cup
    {{<<p[1], p[2]>>, <<p[1], p[2] + 1>>, <<p[1], p[2] + 2>>} :
        p \in (0..width - 1) \X (0..height - 3)}

(***************************************************************************)
(* C17.  With isRunning and isAutoAdvancing both true, fair timer          *)
(* callbacks and no user action, auto-advance halts if and only if the     *)
(* grids reach a fixed point of the rule: a fixed point leads to a halt,   *)
(* and a callback halts only on a fixed point.  From a blinker it never    *)
(* halts, and every callback raises the generation, up to the bound of the *)
(* model.  Under SpecAuto.                                                 *)
(***************************************************************************)
C17_HaltsIffFixedPoint ==
    /\ (AtFixedPoint /\ intervalId = "set" /\ grid.generation < MaxAutoGeneration)
          ~> (intervalId = "null" /\ ~isRunning /\ ~isAutoAdvancing)
    /\ [][/\ (intervalId = "set" /\ intervalId' = "null") => AtFixedPoint
          /\ grid'.generation = grid.generation + 1]_vars
    /\ [](since.alive \in Blinkers => intervalId = "set")
    /\ (since.alive \in Blinkers) ~> (grid.generation = MaxAutoGeneration)

\* A blinker after four timer callbacks: back in its row, the interval set.
C17_Witness ==
    /\ since.alive = {<<1, 1>>, <<2, 1>>, <<3, 1>>}
    /\ grid.generation = 4
    /\ AliveIn(heap, grid) = since.alive
    /\ call.op = "tick"
    /\ intervalId = "set"
    /\ isRunning /\ isAutoAdvancing

(***************************************************************************)
(* C18.  In every reachable state of the page isAutoAdvancing implies      *)
(* isRunning, and the interval is set exactly while both are true, so a    *)
(* timer-driven step needs Start and then Auto.  Under SpecHome.           *)
(***************************************************************************)
C18_AutoImpliesRunning ==
    /\ isAutoAdvancing => isRunning
    /\ intervalId = "set" <=> (isRunning /\ isAutoAdvancing)
    /\ (call.op = "tick" /\ ~isRunning) => call.eq

\* A timer callback has stepped a drawn pattern, and auto-advance goes on.
C18_Witness ==
    /\ call.op = "tick"
    /\ isAutoAdvancing
    /\ isRunning
    /\ intervalId = "set"
    /\ grid.generation = 1
    /\ aliveCells # <<>>

(***************************************************************************)
(* C19.  While isRunning is true, handleMouseDown and handleMouseEnter     *)
(* (and toggleCellState, which they call) leave the current grid, its      *)
(* generation, the alive-cell list and the drag state unchanged; while     *)
(* running, the cell pattern changes only through a step or through Reset. *)
(* Under SpecHome.                                                         *)
(***************************************************************************)
C19_NoEditWhileRunning ==
    [][isRunning =>
          /\ call'.op \in {"mousedown", "mouseenter"} =>
                /\ heap' = heap
                /\ grid' = grid
                /\ aliveCells' = aliveCells
                /\ isDragging' = isDragging
                /\ dragState' = dragState
          /\ (heap' # heap /\ AliveIn(heap', grid') # AliveIn(heap, grid)) =>
                call'.op \in {"next", "tick", "reset"}]_vars

\* A mouse-down on a cell of a drawn pattern while the simulation runs.
C19_Witness ==
    /\ call.op = "mousedown"
    /\ isRunning
    /\ ~isDragging
    /\ aliveCells # <<>>
    /\ AliveIn(heap, grid) = CoordsOf(aliveCells)
    /\ grid.generation = 0

(***************************************************************************)
(* C20.  From every reachable state Reset leaves the all-dead 25 x 25 grid *)
(* of generation 0, an empty alive-cell list, and isRunning and            *)
(* isAutoAdvancing false; a later edit shows the list as it was before the *)
(* edit and the toggled cell, so nothing from before the Reset comes back. *)
(* Under SpecHome.                                                         *)
(***************************************************************************)
C20_ResetRestoresInitialState ==
    /\ [](call.op = "reset" =>
            /\ grid.width = 25 /\ grid.height = 25
            /\ Len(grid.cells) = 25
            /\ \A r \in DOMAIN grid.cells : Len(grid.cells[r]) = 25
            /\ AliveIn(heap, grid) = {}
            /\ grid.generation = 0
            /\ aliveCells = <<>>
            /\ ~isRunning
            /\ ~isAutoAdvancing
            /\ intervalId = "null")
    /\ [][Edited =>
            AliveIn(heap', grid') =
                CoordsOf(aliveCells)
                    \cup Changed(CoordsOf(aliveCells), CoordsOf(aliveCells'))]_vars

\* A Reset after an alive cell was clicked (dragState is "dead").
C20_Witness ==
    /\ call.op = "reset"
    /\ dragState = "dead"
    /\ aliveCells = <<>>
    /\ AliveIn(heap, grid) = {}
    /\ grid.generation = 0

====
